---- MODULE Spec2Model ----
(***************************************************************************)
(* CloudRuModel.generate (src/cloud_ru_model.py): one call of the adapter  *)
(* between the agent framework's transcript and the chat-completion API.   *)
(*                                                                         *)
(* Python strings are TLA+ strings; Len, \o and SubSeq act on them         *)
(* character by character, so substring tests, lower-casing, replace and   *)
(* repr are computed as Python computes them.                              *)
(***************************************************************************)
EXTENDS Integers, Sequences, FiniteSets, TLC

(***************************************************************************)
(* Python string primitives used by generate.                              *)
(***************************************************************************)

\* `sub in s` on two strings.
Contains(s, sub) ==
    \E i \in 1..(Len(s) - Len(sub) + 1) : SubSeq(s, i, i + Len(sub) - 1) = sub

UpperChars == "ABCDEFGHIJKLMNOPQRSTUVWXYZ"
LowerChars == "abcdefghijklmnopqrstuvwxyz"

LowerChar(c) ==
    IF \E i \in 1..Len(UpperChars) : SubSeq(UpperChars, i, i) = c
    THEN LET i == CHOOSE j \in 1..Len(UpperChars) : SubSeq(UpperChars, j, j) = c
         IN  SubSeq(LowerChars, i, i)
    ELSE c

\* str.lower() (the texts of the model are ASCII).
RECURSIVE Lower(_)
Lower(s) ==
    IF Len(s) = 0 THEN ""
    ELSE LowerChar(SubSeq(s, 1, 1)) \o Lower(SubSeq(s, 2, Len(s)))

\* str.replace(old, new) for a non-empty old: every occurrence, left to right.
RECURSIVE Replace(_, _, _)
Replace(s, old, new) ==
    IF Len(s) < Len(old) THEN s
    ELSE IF SubSeq(s, 1, Len(old)) = old
         THEN new \o Replace(SubSeq(s, Len(old) + 1, Len(s)), old, new)
         ELSE SubSeq(s, 1, 1) \o Replace(SubSeq(s, 2, Len(s)), old, new)

DigitChars == "0123456789"

\* str(n) of an int.
RECURSIVE IntStr(_)
IntStr(n) ==
    IF n < 0 THEN "-" \o IntStr(0 - n)
    ELSE IF n < 10 THEN SubSeq(DigitChars, n + 1, n + 1)
    ELSE IntStr(n \div 10) \o SubSeq(DigitChars, (n % 10) + 1, (n % 10) + 1)

\* The ASCII control characters of codes 1 to 31 in code order: the character
\* of code n is at position n (the literal holds them as they are, but for
\* \t \n \f \r).  The texts of the model hold no NUL.
ControlChars == "\t\n\f\r"
DelChar == ""
HexChars == "0123456789abcdef"

\* \xNN, as repr writes a non-printable character of code n.
HexEscape(n) ==
    "\\x" \o SubSeq(HexChars, (n \div 16) + 1, (n \div 16) + 1)
          \o SubSeq(HexChars, (n % 16) + 1, (n % 16) + 1)

\* One character of a str in its repr (the texts of the model are ASCII).
EscapeChar(c, quote) ==
    IF c = quote \/ c = "\\" THEN "\\" \o c
    ELSE IF c = "\n" THEN "\\n"
    ELSE IF c = "\t" THEN "\\t"
    ELSE IF c = "\r" THEN "\\r"
    ELSE IF c = DelChar THEN HexEscape(127)
    ELSE IF \E i \in 1..Len(ControlChars) : SubSeq(ControlChars, i, i) = c
         THEN HexEscape(CHOOSE i \in 1..Len(ControlChars) : SubSeq(ControlChars, i, i) = c)
    ELSE c

RECURSIVE EscapeStr(_, _)
EscapeStr(s, quote) ==
    IF Len(s) = 0 THEN ""
    ELSE EscapeChar(SubSeq(s, 1, 1), quote) \o EscapeStr(SubSeq(s, 2, Len(s)), quote)

\* repr(s) of a str: single quotes, unless s holds a ' and no ".
PyRepr(s) ==
    LET quote == IF Contains(s, "'") /\ ~Contains(s, "\"") THEN "\"" ELSE "'"
    IN  quote \o EscapeStr(s, quote) \o quote

RECURSIVE JoinStr(_, _)
JoinStr(strs, sep) ==
    IF Len(strs) = 0 THEN ""
    ELSE IF Len(strs) = 1 THEN strs[1]
    ELSE strs[1] \o sep \o JoinStr(Tail(strs), sep)

(***************************************************************************)
(* Values.  A stop-sequence element is a str, an int or None; a content    *)
(* part is a dict {'type': .., 'text': ..} (the 'text' key optional) or a  *)
(* bare str; a content is a str, a list of parts, None, or missing.        *)
(***************************************************************************)

StrItem(s) == [kind |-> "str", s |-> s, n |-> 0]
IntItem(n) == [kind |-> "int", s |-> "", n |-> n]
NoneItem == [kind |-> "none", s |-> "", n |-> 0]

\* repr of a list element.
ReprItem(e) ==
    CASE e.kind = "str" -> PyRepr(e.s)
      [] e.kind = "int" -> IntStr(e.n)
      [] OTHER -> "None"

TextPart(t) == [isDict |-> TRUE, hasText |-> TRUE, type |-> "text", text |-> t]
ImagePart == [isDict |-> TRUE, hasText |-> FALSE, type |-> "image", text |-> ""]
BarePart(t) == [isDict |-> FALSE, hasText |-> FALSE, type |-> "", text |-> t]

ReprPart(p) ==
    IF ~p.isDict THEN PyRepr(p.text)
    ELSE IF p.hasText
         THEN "{'type': " \o PyRepr(p.type) \o ", 'text': " \o PyRepr(p.text) \o "}"
         ELSE "{'type': " \o PyRepr(p.type) \o "}"

StrContent(t) == [kind |-> "str", text |-> t, parts |-> <<>>]
ListContent(ps) == [kind |-> "list", text |-> "", parts |-> ps]
NoneContent == [kind |-> "none", text |-> "", parts |-> <<>>]
NoContent == [kind |-> "absent", text |-> "", parts |-> <<>>]

\* str(stop_sequences) of a list.
StrItems(items) ==
    "[" \o JoinStr([i \in 1..Len(items) |-> ReprItem(items[i])], ", ") \o "]"

\* str(content) of a list of parts.
StrParts(parts) ==
    "[" \o JoinStr([i \in 1..Len(parts) |-> ReprPart(parts[i])], ", ") \o "]"

\* `content if isinstance(content, str) else str(content)`.
ContentStr(c) ==
    CASE c.kind = "str" -> c.text
      [] c.kind = "list" -> StrParts(c.parts)
      [] OTHER -> "None"

(***************************************************************************)
(* Inbound messages.  shape "obj": has a role attribute (a ChatMessage);   *)
(* shape "dict": a mapping; shape "other": neither (an int, say).  A role  *)
(* is a MessageRole member (str(role) is "MessageRole.NAME", and it        *)
(* compares equal to its value) or a plain str.                            *)
(***************************************************************************)

EnumRole(name, value) == [enum |-> TRUE, name |-> name, value |-> value]
PlainRole(value) == [enum |-> FALSE, name |-> "", value |-> value]

ObjMsg(role, content) ==
    [shape |-> "obj", hasRole |-> TRUE, role |-> role, content |-> content,
     repr |-> "", type |-> "ChatMessage"]
\* An object with a role attribute and no content attribute; repr is str(msg).
ObjMsgNoContent(role, repr) ==
    [shape |-> "obj", hasRole |-> TRUE, role |-> role, content |-> NoContent,
     repr |-> repr, type |-> "object"]
DictMsg(role, content) ==
    [shape |-> "dict", hasRole |-> TRUE, role |-> role, content |-> content,
     repr |-> "", type |-> "dict"]
DictMsgNoRole(content) ==
    [shape |-> "dict", hasRole |-> FALSE, role |-> PlainRole(""), content |-> content,
     repr |-> "", type |-> "dict"]
OtherMsg(type) ==
    [shape |-> "other", hasRole |-> FALSE, role |-> PlainRole(""), content |-> NoContent,
     repr |-> "", type |-> type]

\* str(msg.role)
StrRole(r) == IF r.enum THEN "MessageRole." \o r.name ELSE r.value

RolePrefix == "MessageRole."

\* The role the dispatch tests: lines 94 and 109.
ResolveRole(msg) ==
    IF msg.shape = "obj"
    THEN Lower(Replace(StrRole(msg.role), RolePrefix, ""))
    ELSE IF msg.hasRole THEN msg.role.value ELSE "user"

\* The content after lines 97-110, as a content value.
ExtractContent(msg) ==
    IF msg.shape = "obj"
    THEN IF msg.content.kind = "absent"
         THEN StrContent(msg.repr)
         ELSE IF msg.content.kind = "list" /\ Len(msg.content.parts) > 0
              THEN IF msg.content.parts[1].isDict /\ msg.content.parts[1].hasText
                   THEN StrContent(msg.content.parts[1].text)
                   ELSE StrContent(StrParts(msg.content.parts))
              ELSE msg.content
    ELSE IF msg.content.kind = "absent" THEN StrContent("") ELSE msg.content

ToolCallRoles == {"tool_call", "tool-call"}
ToolResponseRoles == {"tool_response", "tool-response"}
ProviderRoles == {"system", "user", "assistant"}

Converted(role, content) == [role |-> role, content |-> content]

\* Variant: a tool response keeps its own role instead of becoming assistant.
DispatchRoleNoRemap(role, content) ==
    IF role \in ToolCallRoles THEN <<>>
    ELSE IF role \in ToolResponseRoles \cup ProviderRoles
         THEN <<Converted(role, ContentStr(content))>>
    ELSE <<>>

\* The role dispatch of lines 113-137: the messages one inbound message adds.
DispatchRole(role, content) ==
    IF role \in ToolCallRoles THEN <<>>
    ELSE IF role \in ToolResponseRoles THEN <<Converted("assistant", ContentStr(content))>>
    ELSE IF role = "system" THEN <<Converted("system", ContentStr(content))>>
    ELSE IF role = "user" THEN <<Converted("user", ContentStr(content))>>
    ELSE IF role = "assistant" THEN <<Converted("assistant", ContentStr(content))>>
    ELSE <<>>

\* A step's outcome: a value, or an exception with its str() and whether its
\* class derives from Exception (KeyboardInterrupt, SystemExit, GeneratorExit
\* and asyncio.CancelledError do not).
Ok(v) == [ok |-> TRUE, value |-> v, error |-> "", isException |-> TRUE]
Raise(e) == [ok |-> FALSE, value |-> <<>>, error |-> e, isException |-> TRUE]
RaiseBase(e) == [ok |-> FALSE, value |-> <<>>, error |-> e, isException |-> FALSE]

\* The loop of lines 89-137.  A message with neither a role attribute nor a
\* get method raises AttributeError at line 109.
RECURSIVE ConvertMessages(_, _)
ConvertMessages(msgs, acc) ==
    IF Len(msgs) = 0 THEN Ok(acc)
    ELSE LET msg == Head(msgs)
         IN  IF msg.shape = "other"
             THEN Raise("'" \o msg.type \o "' object has no attribute 'get'")
             ELSE ConvertMessages(Tail(msgs),
                      acc \o DispatchRole(ResolveRole(msg), ExtractContent(msg)))

(***************************************************************************)
(* Request assembly: lines 139-185.                                        *)
(***************************************************************************)

CompactLimit == 10000
MaxStop == 4

CompactTemplate ==
    "You are an expert assistant who solves tasks step by step using code.\n"
    \o "GLM-4.5 reasoning mode enabled.\n"
    \o "Always respond in this format:\n"
    \o "Thought: [your reasoning]\n"
    \o "<code>\n[your python code]\n</code>\n"
    \o "Use print() to output intermediate results.\n"
    \o "Use final_answer() to provide the final result."

FormatHint ==
    "\n\nRemember to respond with:\nThought: [reasoning]\n<code>\n[python code]\n</code>"

ModelName == "zai-org/GLM-4.5"

\* stop_sequences is None or a list.
NoStop == [given |-> FALSE, items |-> <<>>]
StopList(items) == [given |-> TRUE, items |-> items]

\* `if stop_sequences:`
Truthy(stop) == stop.given /\ Len(stop.items) > 0

\* `stop_sequences and "<code>" in str(stop_sequences)`: lines 163, 194, 218.
CodeProtocol(stop) == Truthy(stop) /\ Contains(StrItems(stop.items), "<code>")

\* Variant: the limit itself already compacts (>= for >).
CompactSystemAtLimit(conv) ==
    IF Len(conv) > 0 /\ conv[1].role = "system" /\ Len(conv[1].content) >= CompactLimit
    THEN [conv EXCEPT ![1] = Converted("system", CompactTemplate)]
    ELSE conv

\* Lines 139-156.
CompactSystem(conv) ==
    IF Len(conv) > 0 /\ conv[1].role = "system" /\ Len(conv[1].content) > CompactLimit
    THEN [conv EXCEPT ![1] = Converted("system", CompactTemplate)]
    ELSE conv

\* Lines 158-160.
EnsureNonEmpty(conv) ==
    IF Len(conv) = 0 THEN <<Converted("user", "Hello")>> ELSE conv

\* Variant: the reminder is appended without testing the mode.
AppendHintAnyMode(conv, stop) ==
    IF conv[Len(conv)].role = "user"
    THEN [conv EXCEPT ![Len(conv)].content = @ \o FormatHint]
    ELSE conv

\* Variant: the reminder replaces the content (= for +=).
AppendHintReplace(conv, stop) ==
    IF CodeProtocol(stop) /\ conv[Len(conv)].role = "user"
    THEN [conv EXCEPT ![Len(conv)].content = FormatHint]
    ELSE conv

\* Lines 162-168.
AppendHint(conv, stop) ==
    IF CodeProtocol(stop) /\ conv[Len(conv)].role = "user"
    THEN [conv EXCEPT ![Len(conv)].content = @ \o FormatHint]
    ELSE conv

\* Variant: empty strings are kept.
IsValidStopAnyStr(s) == s.kind = "str"

IsValidStop(s) == s.kind = "str" /\ Len(s.s) > 0

\* Lines 180-185: the request's stop entry, or its absence.
StopField(stop) ==
    IF Truthy(stop)
    THEN LET valid_stops == SelectSeq(stop.items, IsValidStop)
         IN  IF Len(valid_stops) > 0
             THEN [present |-> TRUE,
                   value |-> SubSeq(valid_stops, 1,
                                    IF Len(valid_stops) < MaxStop THEN Len(valid_stops)
                                    ELSE MaxStop)]
             ELSE [present |-> FALSE, value |-> <<>>]
    ELSE [present |-> FALSE, value |-> <<>>]

NoRequest == [model |-> "", messages |-> <<>>, stop |-> [present |-> FALSE, value |-> <<>>]]

\* Lines 139-185: the request built from the converted messages.
RequestParams(conv, stop) ==
    [model |-> ModelName,
     messages |-> AppendHint(EnsureNonEmpty(CompactSystem(conv)), stop),
     stop |-> StopField(stop)]

(***************************************************************************)
(* Dispatch and response handling: lines 187-229.                          *)
(***************************************************************************)

\* What client.chat.completions.create does for this call: returns a
\* completion with a text, with a null content or with no choices, or raises
\* an Exception or an exception that is only a BaseException.
TextResponse(t) == [kind |-> "text", text |-> t]
NullResponse == [kind |-> "null", text |-> ""]
NoChoicesResponse == [kind |-> "nochoices", text |-> ""]
RaiseResponse(e) == [kind |-> "raise", text |-> e]
RaiseBaseResponse(e) == [kind |-> "raise_base", text |-> e]

\* A content value: a str or None.
Text(t) == [isNone |-> FALSE, text |-> t]
NoneValue == [isNone |-> TRUE, text |-> ""]

\* Lines 188-191.
ReadResponse(resp) ==
    CASE resp.kind = "raise" -> Raise(resp.text)
      [] resp.kind = "raise_base" -> RaiseBase(resp.text)
      [] resp.kind = "nochoices" -> Raise("list index out of range")
      [] resp.kind = "null" -> Ok(NoneValue)
      [] OTHER -> Ok(Text(resp.text))

\* Variant: a text is reshaped when either marker is missing (or for and).
NeedsReshapeEither(text) == ~Contains(text, "Thought:") \/ ~Contains(text, "<code>")

\* Line 196.
NeedsReshape(text) == ~Contains(text, "Thought:") /\ ~Contains(text, "<code>")

\* Variant: "print" is looked for without lower-casing the text.
IsCodeLikeCaseSensitive(text) ==
    Contains(text, "print") \/ Contains(text, "def ") \/ Contains(text, "import ")

\* Line 198.
IsCodeLike(text) ==
    Contains(Lower(text), "print") \/ Contains(text, "def ") \/ Contains(text, "import ")

\* Lines 198-203.
Reshape(text) ==
    IF IsCodeLike(text)
    THEN "Thought: I will execute the requested code.\n<code>\n" \o text \o "\n</code>"
    ELSE "Thought: I will print the answer.\n<code>\nprint('" \o text \o "')\n</code>"

\* Lines 193-203; `"Thought:" not in None` raises TypeError.
PostProcess(content, stop) ==
    IF CodeProtocol(stop)
    THEN IF content.isNone THEN Raise("argument of type 'NoneType' is not iterable")
         ELSE IF NeedsReshape(content.text) THEN Ok(Text(Reshape(content.text)))
         ELSE Ok(content)
    ELSE Ok(content)

\* The literal of line 228 is Cyrillic ("Sorry, an error occurred: "); it is
\* written here in Latin transliteration.
ApologyPrefix == "Izvinite, proizoshla oshibka: "

\* Lines 217-229.
ErrorContent(stop, e) ==
    IF CodeProtocol(stop)
    THEN "Thought: An error occurred.\n<code>\nprint('Error: " \o e \o "')\n</code>"
    ELSE ApologyPrefix \o e

ChatMessage(role, content) == [role |-> role, content |-> content]
NoResult == [role |-> "", content |-> NoneValue]

\* Lines 214-215: print(error_msg), the message starting with six Cyrillic
\* letters, on sys.stdout: written, or refused by a closed stream (a
\* TextIOWrapper and a StringIO word the ValueError differently) or by an
\* encoding without Cyrillic.
PrintError(out) ==
    CASE out = "closed" -> Raise("I/O operation on closed file.")
      [] out = "closed StringIO" -> Raise("I/O operation on closed file")
      [] out = "ascii" ->
           Raise("'ascii' codec can't encode characters in position 0-5: "
                 \o "ordinal not in range(128)")
      [] OTHER -> Ok(<<>>)

\* The stages the try statement of lines 87-212 encloses.
TryBlock == {"NORMALIZE", "BUILD_REQUEST", "DISPATCH", "CLASSIFY_RESPONSE", "RETURN"}

(***************************************************************************)
(* One call of generate.                                                   *)
(***************************************************************************)

VARIABLES
    pc,              \* stage of the call
    messages,        \* argument: the transcript
    stop_sequences,  \* argument
    provider,        \* what the completion client does when called
    converted_messages, \* the normalized messages (after the loop of lines 91-137)
    request_params,  \* the request passed to the client
    content,         \* response text, raw and then post-processed
    error,           \* the exception caught, if any
    result,          \* the ChatMessage returned
    stdout,          \* sys.stdout: "utf-8" or "ascii" (its encoding), or closed
    propagated       \* the exception that left generate, if any

vars == <<pc, messages, stop_sequences, provider, converted_messages, request_params, content, error, result,
          stdout, propagated>>

NoError == [raised |-> FALSE, text |-> ""]
Caught(e) == [raised |-> TRUE, text |-> e]

\* Where the exception of outcome r, raised in stage `stage`, takes the call:
\* `except Exception` (line 213) takes what the try encloses and derives from
\* Exception; anything else leaves generate.
OnRaise(stage, r) ==
    IF stage \in TryBlock /\ r.isException THEN "SYNTHESIZE_ERROR" ELSE "raised"

\* The exception of outcome r, raised in the stage the call is in, is caught or
\* leaves generate.
RaiseIn(r) ==
    /\ pc' = OnRaise(pc, r)
    /\ IF OnRaise(pc, r) = "SYNTHESIZE_ERROR"
       THEN error' = Caught(r.error) /\ propagated' = propagated
       ELSE propagated' = Caught(r.error) /\ error' = error

Normalize ==
    /\ pc = "NORMALIZE"
    /\ LET r == ConvertMessages(messages, <<>>)
       IN  IF r.ok
           THEN /\ converted_messages' = r.value
                /\ pc' = "BUILD_REQUEST"
                /\ UNCHANGED <<error, propagated>>
           ELSE /\ RaiseIn(r)
                /\ converted_messages' = converted_messages
    /\ UNCHANGED <<messages, stop_sequences, provider, request_params, content, result,
                   stdout>>

BuildRequest ==
    /\ pc = "BUILD_REQUEST"
    /\ request_params' = RequestParams(converted_messages, stop_sequences)
    /\ pc' = "DISPATCH"
    /\ UNCHANGED <<messages, stop_sequences, provider, converted_messages, content,
                   error, result, stdout, propagated>>

Dispatch ==
    /\ pc = "DISPATCH"
    /\ LET r == ReadResponse(provider)
       IN  IF r.ok
           THEN /\ content' = r.value
                /\ pc' = "CLASSIFY_RESPONSE"
                /\ UNCHANGED <<error, propagated>>
           ELSE /\ RaiseIn(r)
                /\ content' = content
    /\ UNCHANGED <<messages, stop_sequences, provider, converted_messages, request_params,
                   result, stdout>>

ClassifyResponse ==
    /\ pc = "CLASSIFY_RESPONSE"
    /\ LET r == PostProcess(content, stop_sequences)
       IN  IF r.ok
           THEN /\ content' = r.value
                /\ pc' = "RETURN"
                /\ UNCHANGED <<error, propagated>>
           ELSE /\ RaiseIn(r)
                /\ content' = content
    /\ UNCHANGED <<messages, stop_sequences, provider, converted_messages, request_params,
                   result, stdout>>

Return ==
    /\ pc = "RETURN"
    /\ result' = ChatMessage("assistant", content)
    /\ pc' = "done"
    /\ UNCHANGED <<messages, stop_sequences, provider, converted_messages, request_params,
                   content, error, stdout, propagated>>

\* The handler of lines 213-229.  An exception raised by its print is raised
\* outside the try and leaves generate.
SynthesizeError ==
    /\ pc = "SYNTHESIZE_ERROR"
    /\ LET r == PrintError(stdout)
       IN  IF r.ok
           THEN /\ result' = ChatMessage("assistant",
                                         Text(ErrorContent(stop_sequences, error.text)))
                /\ pc' = "done"
                /\ propagated' = propagated
           ELSE /\ propagated' = Caught(r.error)
                /\ pc' = "raised"
                /\ result' = result
    /\ UNCHANGED <<messages, stop_sequences, provider, converted_messages, request_params,
                   content, error, stdout>>

Next == Normalize \/ BuildRequest \/ Dispatch \/ ClassifyResponse \/ Return \/ SynthesizeError

(***************************************************************************)
(* The calls checked.                                                      *)
(***************************************************************************)

MaxMsgs == 2
MaxStops == 5
LongLen == 12000

SeqsUpTo(S, n) == UNION {[1..k -> S] : k \in 0..n}

RECURSIVE Rep(_, _)
Rep(c, n) ==
    IF n = 0 THEN ""
    ELSE IF n % 2 = 0 THEN LET h == Rep(c, n \div 2) IN h \o h
    ELSE c \o Rep(c, n - 1)

MsgPool ==
    { ObjMsg(EnumRole("SYSTEM", "system"), StrContent("Be brief.")),
      ObjMsg(EnumRole("USER", "user"), StrContent("What is 2+2?")),
      ObjMsg(EnumRole("ASSISTANT", "assistant"), ListContent(<<TextPart("It is 4"), ImagePart>>)),
      ObjMsg(EnumRole("TOOL_CALL", "tool-call"), StrContent("calc(2+2)")),
      ObjMsg(EnumRole("TOOL_RESPONSE", "tool-response"), StrContent("42")),
      ObjMsg(PlainRole("Assistant"), NoneContent),
      ObjMsg(PlainRole("USER"), ListContent(<<ImagePart, BarePart("a\fb")>>)),
      ObjMsg(PlainRole("function"), StrContent("f")),
      ObjMsgNoContent(PlainRole("user"), "Msg(role='user')"),
      DictMsg(PlainRole("user"), StrContent("hi")),
      DictMsg(PlainRole("USER"), StrContent("HI")),
      DictMsg(PlainRole("MessageRole.SYSTEM"), StrContent("Be kind.")),
      DictMsg(EnumRole("ASSISTANT", "assistant"), ListContent(<<TextPart("ok")>>)),
      DictMsg(PlainRole("tool_response"), StrContent("42")),
      DictMsg(PlainRole("tool_call"), StrContent("calc")),
      DictMsgNoRole(NoContent),
      OtherMsg("int") }

StopPool ==
    { StrItem("<code>"), StrItem(""), StrItem("STOP"), IntItem(7) }

Transcripts == SeqsUpTo(MsgPool, MaxMsgs)

StopLists == {StopList(items) : items \in SeqsUpTo(StopPool, MaxStops)}

FewTranscripts ==
    { <<>>,
      <<DictMsg(PlainRole("user"), StrContent("hi"))>>,
      <<ObjMsg(EnumRole("SYSTEM", "system"), StrContent("Be brief.")),
        ObjMsg(EnumRole("USER", "user"), StrContent("What is 2+2?"))>>,
      <<ObjMsg(EnumRole("TOOL_CALL", "tool-call"), StrContent("calc(2+2)"))>>,
      <<OtherMsg("int")>> }

FewStops ==
    { NoStop,
      StopList(<<>>),
      StopList(<<StrItem("<code>")>>),
      StopList(<<StrItem("</code>"), StrItem("Observation:")>>),
      StopList(<<StrItem("<co"), StrItem("de>")>>),
      StopList(<<StrItem("a<code>b"), NoneItem>>) }

Responses ==
    { TextResponse("The answer is 4"),
      TextResponse("x = 1 + 1\nprint(x)"),
      TextResponse("Thought: I will add."),
      TextResponse("<code>\nfinal_answer(4)\n</code>"),
      TextResponse("Thought: add\n<code>\nfinal_answer(4)\n</code>"),
      TextResponse("PRINT 4"),
      TextResponse("def f(): return 4"),
      TextResponse("DEF F"),
      TextResponse("import os"),
      TextResponse("IMPORT OS"),
      TextResponse("It's 4"),
      TextResponse(""),
      NullResponse,
      NoChoicesResponse,
      RaiseResponse("Connection error."),
      RaiseResponse(""),
      RaiseBaseResponse("stop now") }

Stdouts == {"utf-8", "ascii", "closed", "closed StringIO"}

Call(m, s, p, o) == [messages |-> m, stop_sequences |-> s, provider |-> p, stdout |-> o]

Calls ==
    {Call(m, s, TextResponse("The answer is 4"), "utf-8") :
        m \in Transcripts, s \in {NoStop, StopList(<<StrItem("<code>")>>)}}
    \cup {Call(<<DictMsg(PlainRole("user"), StrContent("hi"))>>, s, TextResponse("The answer is 4"), "utf-8") :
        s \in StopLists}
    \cup {Call(m, s, p, o) :
            m \in FewTranscripts, s \in FewStops, p \in Responses, o \in Stdouts}

InitWith(calls) ==
    /\ pc = "NORMALIZE"
    /\ \E c \in calls :
        /\ messages = c.messages
        /\ stop_sequences = c.stop_sequences
        /\ provider = c.provider
        /\ stdout = c.stdout
    /\ converted_messages = <<>>
    /\ request_params = NoRequest
    /\ content = NoneValue
    /\ error = NoError
    /\ result = NoResult
    /\ propagated = NoError

Init == InitWith(Calls)

Spec == Init /\ [][Next]_vars

\* Calls whose messages have contents around the compaction limit.
LongPool ==
    { ObjMsg(EnumRole("SYSTEM", "system"), StrContent(Rep("s", CompactLimit - 1))),
      ObjMsg(EnumRole("SYSTEM", "system"), StrContent(Rep("s", CompactLimit))),
      ObjMsg(EnumRole("SYSTEM", "system"), StrContent(Rep("s", CompactLimit + 1))),
      DictMsg(PlainRole("system"), StrContent(Rep("s", LongLen))),
      ObjMsg(EnumRole("USER", "user"), StrContent(Rep("u", LongLen))),
      DictMsg(PlainRole("assistant"), StrContent(Rep("a", CompactLimit + 1))),
      DictMsg(PlainRole("SYSTEM"), StrContent(Rep("d", LongLen))),
      ObjMsg(EnumRole("SYSTEM", "system"), StrContent("Be brief.")) }

LongCalls ==
    {Call(m, s, TextResponse("The answer is 4"), "utf-8") :
        m \in SeqsUpTo(LongPool, MaxMsgs), s \in {NoStop, StopList(<<StrItem("<code>")>>)}}
    \cup {Call(m, s, p, o) :
            m \in FewTranscripts, s \in FewStops, p \in Responses, o \in Stdouts}

InitCompact == InitWith(LongCalls)

SpecCompact == InitCompact /\ [][Next]_vars

(***************************************************************************)
(* Properties.                                                             *)
(***************************************************************************)

\* Normalization succeeded: every inbound message is object-like or mapping-like.
Normalized ==
    /\ pc \notin {"NORMALIZE", "raised"}
    /\ \A i \in 1..Len(messages) : messages[i].shape # "other"

\* The request has been built.
Built == Normalized /\ pc # "BUILD_REQUEST"

\* The call returned what the provider's text became.
ReturnedText == pc = "done" /\ ~error.raised /\ provider.kind = "text"

Min(a, b) == IF a < b THEN a ELSE b

IsPrefix(p, t) == Len(p) <= Len(t) /\ SubSeq(t, 1, Len(p)) = p

\* C1: no exception leaves generate: a call whose normalization, dispatch or
\* response handling raises e ends with a ChatMessage of role "assistant" (it
\* never ends with an exception raised to the caller);
\* in code-protocol mode its content is "Thought: An error occurred." and a
\* one-line <code> block printing 'Error: ' + str(e), otherwise it is the
\* apology followed by str(e).
C1_ErrorsBecomeResults ==
    /\ pc # "raised"
    /\ (pc = "done" /\ Normalized /\ provider.kind = "raise")
          => (error.raised /\ error.text = provider.text)
    /\ (pc = "done" /\ ~Normalized) => error.raised
    /\ (pc = "done" /\ error.raised) =>
          /\ result.role = "assistant"
          /\ ~result.content.isNone
          /\ Contains(result.content.text, error.text)
          /\ IF CodeProtocol(stop_sequences)
             THEN result.content.text =
                    "Thought: An error occurred.\n<code>\nprint('Error: "
                    \o error.text \o "')\n</code>"
             ELSE /\ result.content.text = ApologyPrefix \o error.text
                  /\ ~Contains(result.content.text, "<code>")

\* C2: in code-protocol mode the returned content always contains both
\* "Thought:" and "<code>".
C2_AlwaysConformant ==
    (pc = "done" /\ CodeProtocol(stop_sequences)) =>
        /\ ~result.content.isNone
        /\ Contains(result.content.text, "Thought:")
        /\ Contains(result.content.text, "<code>")

\* The roles whose messages survive normalization, and the role each is given.
C3_Survives(msg) == ResolveRole(msg) \in ToolResponseRoles \cup ProviderRoles
C3_Target(msg) ==
    IF ResolveRole(msg) \in ToolResponseRoles THEN "assistant" ELSE ResolveRole(msg)

\* C3: the normalized sequence is the transcript's surviving messages in
\* transcript order: tool-call and unrecognized roles removed, tool-response
\* emitted as assistant, system/user/assistant with their role; every element
\* has a provider role, and a string content is carried over as it is.
C3_NormalizedIsRoleDispatch ==
    Normalized =>
        LET kept == SelectSeq(messages, C3_Survives)
        IN  /\ Len(converted_messages) = Len(kept)
            /\ \A k \in 1..Len(converted_messages) :
                 /\ converted_messages[k].role \in ProviderRoles
                 /\ converted_messages[k].role = C3_Target(kept[k])
                 /\ converted_messages[k].content = ContentStr(ExtractContent(kept[k]))
                 /\ kept[k].content.kind = "str"
                       => converted_messages[k].content = kept[k].content.text

C3_Witness ==
    /\ pc = "BUILD_REQUEST"
    /\ Len(messages) = 2
    /\ ResolveRole(messages[1]) \in ToolCallRoles
    /\ ResolveRole(messages[2]) \in ToolResponseRoles
    /\ converted_messages = <<Converted("assistant", "42")>>

\* C4 (as stated): when normalization yields nothing, the request's messages
\* are exactly the one message {user, "Hello"}; a dispatched request is never
\* without messages.
C4_Original ==
    Built =>
        /\ Len(request_params.messages) > 0
        /\ converted_messages = <<>>
              => request_params.messages = <<Converted("user", "Hello")>>

\* C4 (amended): when normalization yields nothing, the request holds one user
\* message whose content is "Hello", followed in code-protocol mode by the
\* format reminder; a dispatched request is never without messages.
C4_FallbackMessage ==
    Built =>
        /\ Len(request_params.messages) > 0
        /\ converted_messages = <<>>
              => request_params.messages =
                   <<Converted("user",
                       IF CodeProtocol(stop_sequences)
                       THEN "Hello\n\nRemember to respond with:\n"
                            \o "Thought: [reasoning]\n<code>\n[python code]\n</code>"
                       ELSE "Hello")>>

C4_Witness ==
    /\ pc = "DISPATCH"
    /\ Len(messages) = 1
    /\ ResolveRole(messages[1]) \in ToolCallRoles
    /\ CodeProtocol(stop_sequences)
    /\ Len(request_params.messages) = 1
    /\ IsPrefix("Hello\n\nRemember", request_params.messages[1].content)

\* C5: a provider text containing "Thought:" or "<code>" is returned as it
\* is in either mode, and so is any text outside code-protocol mode; a text is
\* changed only in code-protocol mode and only when it has neither marker.
C5_PassThrough ==
    ReturnedText =>
        /\ (Contains(provider.text, "Thought:") \/ Contains(provider.text, "<code>")
              \/ ~CodeProtocol(stop_sequences))
             => result = ChatMessage("assistant", Text(provider.text))
        /\ result.content # Text(provider.text)
             => /\ CodeProtocol(stop_sequences)
                /\ ~Contains(provider.text, "Thought:")
                /\ ~Contains(provider.text, "<code>")

C5_Witness ==
    /\ pc = "done"
    /\ CodeProtocol(stop_sequences)
    /\ provider = TextResponse("Thought: I will add.")
    /\ result.content = Text("Thought: I will add.")

C6_ExecuteBlock(text) ==
    "Thought: I will execute the requested code.\n<code>\n" \o text \o "\n</code>"
C6_PrintBlock(text) ==
    "Thought: I will print the answer.\n<code>\nprint('" \o text \o "')\n</code>"

\* A code-protocol call returned a provider text that had neither marker.
C6_Reshaped ==
    /\ ReturnedText
    /\ CodeProtocol(stop_sequences)
    /\ ~Contains(provider.text, "Thought:")
    /\ ~Contains(provider.text, "<code>")

\* C6 (as stated): a text with neither marker is wrapped as code to execute
\* when it contains "print" or "def " in any letter case, or "import ";
\* otherwise as print('<text>').
C6_Original ==
    C6_Reshaped =>
        result.content.text =
            IF \/ Contains(Lower(provider.text), "print")
               \/ Contains(Lower(provider.text), "def ")
               \/ Contains(provider.text, "import ")
            THEN C6_ExecuteBlock(provider.text)
            ELSE C6_PrintBlock(provider.text)

\* C6 (amended): a text with neither marker is wrapped as code to execute when
\* it contains "print" in any letter case, or "def " or "import " exactly as
\* written (lower case); otherwise as print('<text>').
C6_ReshapeRule ==
    C6_Reshaped =>
        result.content.text =
            IF \/ Contains(Lower(provider.text), "print")
               \/ Contains(provider.text, "def ")
               \/ Contains(provider.text, "import ")
            THEN C6_ExecuteBlock(provider.text)
            ELSE C6_PrintBlock(provider.text)

C6_Witness ==
    /\ C6_Reshaped
    /\ provider.text = "DEF F"
    /\ result.content.text = "Thought: I will print the answer.\n<code>\nprint('DEF F')\n</code>"

\* The positions of stop_sequences holding a non-empty string, and the rank of
\* one among them.
C7_ValidAt ==
    {i \in 1..Len(stop_sequences.items) :
        stop_sequences.items[i].kind = "str" /\ stop_sequences.items[i].s # ""}
C7_Rank(i) == Cardinality({j \in C7_ValidAt : j <= i})

\* C7: the request's stop entry is the non-empty strings of stop_sequences in
\* their order, cut to the first 4; it is absent exactly when stop_sequences is
\* None or empty or holds no non-empty string.
C7_StopField ==
    Built =>
        /\ request_params.stop.present <=> (stop_sequences.given /\ C7_ValidAt # {})
        /\ request_params.stop.present =>
             /\ Len(request_params.stop.value) = Min(4, Cardinality(C7_ValidAt))
             /\ Len(request_params.stop.value) \in 1..4
             /\ \A i \in C7_ValidAt :
                  C7_Rank(i) <= 4
                     => request_params.stop.value[C7_Rank(i)] = stop_sequences.items[i]

C7_Witness ==
    /\ pc = "DISPATCH"
    /\ stop_sequences.items = <<StrItem("<code>"), StrItem(""), StrItem("STOP"), IntItem(7)>>
    /\ request_params.stop = [present |-> TRUE, value |-> <<StrItem("<code>"), StrItem("STOP")>>]

\* C8: the first normalized message is replaced by the compacted template
\* when its role is system and its content is longer than 10,000 characters;
\* a system message of 10,000 characters or fewer is sent untouched, and no
\* other message is ever compacted: it keeps its role and its content stays
\* the beginning of what is sent.
C8_CompactionBoundary ==
    (Built /\ Len(converted_messages) > 0) =>
        /\ Len(request_params.messages) = Len(converted_messages)
        /\ IF converted_messages[1].role = "system"
           THEN IF Len(converted_messages[1].content) > 10000
                THEN request_params.messages[1] = Converted("system", CompactTemplate)
                ELSE request_params.messages[1] = converted_messages[1]
           ELSE /\ request_params.messages[1].role = converted_messages[1].role
                /\ IsPrefix(converted_messages[1].content, request_params.messages[1].content)
        /\ \A k \in 2..Len(converted_messages) :
             /\ request_params.messages[k].role = converted_messages[k].role
             /\ IsPrefix(converted_messages[k].content, request_params.messages[k].content)

C8_Witness ==
    /\ pc = "DISPATCH"
    /\ Len(converted_messages) = 2
    /\ converted_messages[1].role = "system"
    /\ Len(converted_messages[1].content) = 10000
    /\ request_params.messages[1] = converted_messages[1]
    /\ converted_messages[2].role = "system"
    /\ Len(converted_messages[2].content) = 10001
    /\ request_params.messages[2] = converted_messages[2]

\* The role of a message resolved as the specification describes it, whatever
\* the message's shape: the prefix stripped and the rest lower-cased.
C9_Role(msg) ==
    Lower(Replace(IF msg.hasRole THEN StrRole(msg.role) ELSE "user", RolePrefix, ""))
C9_Survives(msg) == C9_Role(msg) \in ToolResponseRoles \cup ProviderRoles

\* C9: role resolution applies to attribute-style and mapping-style messages
\* alike: a message whose role, prefix stripped and lower-cased, is system,
\* user or assistant is emitted with that role and not dropped.
C9_UniformRoleResolution ==
    Normalized =>
        LET kept == SelectSeq(messages, C9_Survives)
        IN  /\ Len(converted_messages) = Len(kept)
            /\ \A k \in 1..Len(kept) :
                 C9_Role(kept[k]) \in ProviderRoles
                    => converted_messages[k].role = C9_Role(kept[k])

FormatReminder ==
    "\n\nRemember to respond with:\nThought: [reasoning]\n<code>\n[python code]\n</code>"

\* The request's messages before the reminder is considered.
C10_Base == EnsureNonEmpty(CompactSystem(converted_messages))

\* The request's messages are `base`, the last one with the reminder appended
\* to its content when `hinted`.
C10_Request(base, hinted) ==
    /\ Len(request_params.messages) = Len(base)
    /\ \A k \in 1..(Len(base) - 1) : request_params.messages[k] = base[k]
    /\ request_params.messages[Len(base)] =
         IF hinted
         THEN Converted(base[Len(base)].role, base[Len(base)].content \o FormatReminder)
         ELSE base[Len(base)]

\* C10 (as stated): for a transcript with a final message, the reminder is
\* appended to the last request message when the call is in code-protocol mode
\* and the transcript's final message has role user, and to no message
\* otherwise.
C10_Original ==
    (Built /\ Len(messages) > 0) =>
        C10_Request(C10_Base,
                    /\ CodeProtocol(stop_sequences)
                    /\ ResolveRole(messages[Len(messages)]) = "user")

\* C10 (amended): the reminder is appended to the last request message when
\* the call is in code-protocol mode and that message (the last normalized
\* message, or the substituted "Hello" message) has role user, and to no
\* message otherwise; the message's content stays as the beginning of the new
\* content and no other request message changes.
C10_HintOnLastRequestMessage ==
    Built =>
        C10_Request(C10_Base,
                    /\ CodeProtocol(stop_sequences)
                    /\ C10_Base[Len(C10_Base)].role = "user")

C10_Witness ==
    /\ pc = "DISPATCH"
    /\ CodeProtocol(stop_sequences)
    /\ Len(messages) = 2
    /\ ResolveRole(messages[2]) \in ToolCallRoles
    /\ Len(converted_messages) = 1
    /\ converted_messages[1].role = "user"
    /\ request_params.messages[1].content = converted_messages[1].content \o FormatReminder

====
